---- MODULE Spec2Model ----
(***************************************************************************)
(* A model of the worksheet helpers of src/src/utils/cell-utils.ts and of  *)
(* the Number extensions of the package entry file (src/unnamed/part_000). *)
(*                                                                         *)
(* JavaScript values are records tagged by "ty" (what typeof / the engine  *)
(* sees): undefined, number, string, object (a CellObject) and a marker    *)
(* for a thrown TypeError.  Numbers are exact non-negative decimals: an    *)
(* integer part and the sequence of fractional digits, without trailing    *)
(* zeros.  A cell address such as "A1" is its column letters (1 = A ...    *)
(* 26 = Z) and its 1-based row number; a range "A1:B2" is the pair of its  *)
(* two addresses.  A worksheet is a function from the keys that are set to *)
(* the values stored under them (a key that was never written is not in    *)
(* the DOMAIN; a key written with undefined is).                           *)
(***************************************************************************)
EXTENDS Integers, Sequences, FiniteSets, TLC

VARIABLES worksheet, targetSheet, merges, call, ret, history

vars == <<worksheet, targetSheet, merges, call, ret, history>>

----------------------------------------------------------------------------
(* Bounds of the model *)

MaxRow == 2
MaxMerges == 2

----------------------------------------------------------------------------
(* Numbers *)

Num(i, f) == [int |-> i, frac |-> f]

Zero == Num(0, <<>>)

RECURSIVE StripZeros(_)
StripZeros(ds) ==
    IF ds = <<>> THEN <<>>
    ELSE IF ds[Len(ds)] = 0 THEN StripZeros(SubSeq(ds, 1, Len(ds) - 1))
    ELSE ds

RECURSIVE PadZeros(_, _)
PadZeros(ds, n) == IF Len(ds) >= n THEN ds ELSE PadZeros(Append(ds, 0), n)

\* ds + 1 in the last place, with the carry out of the first place
RECURSIVE AddOne(_)
AddOne(ds) ==
    IF ds = <<>> THEN [digits |-> <<>>, carry |-> 1]
    ELSE LET n == Len(ds)
         IN  IF ds[n] < 9
             THEN [digits |-> [ds EXCEPT ![n] = ds[n] + 1], carry |-> 0]
             ELSE LET r == AddOne(SubSeq(ds, 1, n - 1))
                  IN  [digits |-> Append(r.digits, 0), carry |-> r.carry]

\* Number.prototype.toFixed(digits): the decimal string with exactly
\* `digits` fractional digits, the nearest one, a tie rounded up.
toFixed(x, digits) ==
    IF Len(x.frac) <= digits
    THEN Num(x.int, PadZeros(x.frac, digits))
    ELSE LET kept == SubSeq(x.frac, 1, digits)
         IN  IF x.frac[digits + 1] < 5
             THEN Num(x.int, kept)
             ELSE LET r == AddOne(kept)
                  IN  Num(x.int + r.carry, r.digits)

\* parseFloat of such a decimal string: the number it denotes
parseFloat(s) == Num(s.int, StripZeros(s.frac))

\* the default of the digits parameter of toFixedFloat
DefaultDigits == 35

\* the default the doc comment of toFixedFloat states
DocumentedDefaultDigits == 14

toFixedFloat(x, digits) ==
    LET fixedValue == toFixed(x, digits)
        floatValue == parseFloat(fixedValue)
    IN  floatValue

\* value % 1 : the fractional part
Mod1(x) == Num(0, x.frac)

----------------------------------------------------------------------------
(* JavaScript values *)

Undefined == [ty |-> "undefined"]

Number(n) == [ty |-> "number", num |-> n]

String(s) == [ty |-> "string", str |-> s]

\* a CellObject {t, v, z}; a property that is not set reads as undefined
CellObject(t, v, z) == [ty |-> "object", t |-> t, v |-> v, z |-> z]

TypeError == [ty |-> "TypeError"]

\* typeof x
TypeOf(x) == x.ty

\* !x : x is undefined, 0 or ''
Falsy(x) ==
    \/ x.ty = "undefined"
    \/ x.ty = "number" /\ x.num = Zero
    \/ x.ty = "string" /\ x.str = ""

\* x.p : a property of an object, undefined on a number or a string,
\* a TypeError on undefined
GetProp(x, p) ==
    CASE x.ty = "object" -> x[p]
      [] x.ty = "undefined" -> TypeError
      [] OTHER -> Undefined

\* x?.p
GetPropOptional(x, p) == IF x.ty = "undefined" THEN Undefined ELSE GetProp(x, p)

----------------------------------------------------------------------------
(* Addresses: xlsx.utils.decode_cell, encode_cell, decode_range *)

Addr(letters, row) == [col |-> letters, row |-> row]

RECURSIVE decode_col(_)
decode_col(letters) ==
    IF letters = <<>> THEN -1
    ELSE 26 * (decode_col(SubSeq(letters, 1, Len(letters) - 1)) + 1)
         + letters[Len(letters)] - 1

RECURSIVE encode_col(_)
encode_col(c) ==
    IF c < 0 THEN <<>>
    ELSE Append(encode_col(((c - (c % 26)) \div 26) - 1), (c % 26) + 1)

decode_cell(address) == [r |-> address.row - 1, c |-> decode_col(address.col)]

encode_cell(cell) == Addr(encode_col(cell.c), cell.r + 1)

\* a range is <<start address, end address>>
decode_range(range) == [s |-> decode_cell(range[1]), e |-> decode_cell(range[2])]

----------------------------------------------------------------------------
(* Worksheets *)

EmptySheet == [a \in {} |-> Undefined]

\* worksheet[address]
Lookup(ws, address) == IF address \in DOMAIN ws THEN ws[address] ELSE Undefined

\* worksheet[address] = value
Store(ws, address, value) ==
    [a \in DOMAIN ws \cup {address} |-> IF a = address THEN value ELSE ws[a]]

----------------------------------------------------------------------------
(* The operations of cell-utils.ts, as functions of their arguments *)

\* the matrix getRangeValues returns
getRangeValues(ws, range) ==
    LET decodedRange == decode_range(range)
        nRows == decodedRange.e.r - decodedRange.s.r + 1
        nCols == decodedRange.e.c - decodedRange.s.c + 1
        cellAt(i, j) ==
            Lookup(ws, encode_cell([r |-> decodedRange.s.r + i - 1,
                                    c |-> decodedRange.s.c + j - 1]))
    IN  [i \in 1..nRows |-> [j \in 1..nCols |-> GetPropOptional(cellAt(i, j), "v")]]

\* a variant of getCellNumericValue that tests the tag against 's'
getCellNumericValue_WrongTag(ws, cellAddress) ==
    LET cell == Lookup(ws, cellAddress)
        tag == GetProp(cell, "t")
    IN  IF Falsy(cell) THEN Number(Zero)
        ELSE IF tag = TypeError THEN TypeError
        ELSE IF tag # String("s") THEN Number(Zero)
        ELSE GetProp(cell, "v")

\* the value getCellNumericValue returns: 0 when !cell, else 0 when
\* cell.t !== 'n', else cell.v; reading cell.t throws when cell is undefined
getCellNumericValue(ws, cellAddress) ==
    LET cell == Lookup(ws, cellAddress)
        tag == GetProp(cell, "t")
    IN  IF Falsy(cell) THEN Number(Zero)
        ELSE IF tag = TypeError THEN TypeError
        ELSE IF tag # String("n") THEN Number(Zero)
        ELSE GetProp(cell, "v")

\* a variant of getCellStringValue without the test for a missing cell
getCellStringValue_NoMissingTest(ws, cellAddress) ==
    LET cell == Lookup(ws, cellAddress)
        tag == GetProp(cell, "t")
    IN  IF tag = TypeError THEN TypeError
        ELSE IF tag # String("s") THEN String("")
        ELSE GetProp(cell, "v")

\* the value getCellStringValue returns: '' when !cell, else '' when
\* cell.t !== 's', else cell.v; reading cell.t throws when cell is undefined
getCellStringValue(ws, cellAddress) ==
    LET cell == Lookup(ws, cellAddress)
        tag == GetProp(cell, "t")
    IN  IF Falsy(cell) THEN String("")
        ELSE IF tag = TypeError THEN TypeError
        ELSE IF tag # String("s") THEN String("")
        ELSE GetProp(cell, "v")

\* a variant of StringCell that tags the record as numeric
StringCell_NumericTag(value) == CellObject(String("n"), value, Undefined)

\* the record setCellValue builds for a string
StringCell(value) == CellObject(String("s"), value, Undefined)

\* a variant of NumberCell with the two display formats exchanged
NumberCell_FormatsSwapped(value) ==
    LET isWholeNumber == Mod1(value.num) = Zero
        fixedValue == IF isWholeNumber
                      THEN value.num
                      ELSE toFixedFloat(value.num, DefaultDigits)
        format == IF isWholeNumber THEN "0.0000" ELSE "0"
    IN  CellObject(String("n"), Number(fixedValue), String(format))

\* the record setCellValue builds for a number
NumberCell(value) ==
    LET isWholeNumber == Mod1(value.num) = Zero
        fixedValue == IF isWholeNumber
                      THEN value.num
                      ELSE toFixedFloat(value.num, DefaultDigits)
        format == IF isWholeNumber THEN "0" ELSE "0.0000"
    IN  CellObject(String("n"), Number(fixedValue), String(format))

\* the worksheet setCellValue leaves
setCellValue(ws, cellAddress, value, formatCell) ==
    IF ~formatCell \/ TypeOf(value) = "object"
    THEN Store(ws, cellAddress, value)
    ELSE IF value = Undefined
    THEN Store(ws, cellAddress, CellObject(Undefined, Undefined, Undefined))
    ELSE IF TypeOf(value) = "string"
    THEN Store(ws, cellAddress, StringCell(value))
    ELSE Store(ws, cellAddress, NumberCell(value))

\* the target sheet duplicateToSheet leaves; targetCellAddress is <<>> when
\* the argument is omitted and <<address>> when it is given
duplicateToSheet(sourceSheet, target, sourceCellAddress, targetCellAddress) ==
    LET cellAddress == IF targetCellAddress # <<>>
                       THEN targetCellAddress[1]
                       ELSE sourceCellAddress
        sourceCell == Lookup(sourceSheet, cellAddress)
    IN  Store(target, cellAddress, sourceCell)

\* worksheet['!merges'] is undefined or an array
Array(items) == [ty |-> "array", items |-> items]

\* a variant of mergeCells that starts a new list on every call
mergeCells_NewList(wsMerges, startAddress, endAddress) ==
    LET startCell == decode_cell(startAddress)
        endCell == decode_cell(endAddress)
        mergedRange == [s |-> [r |-> startCell.r, c |-> startCell.c],
                        e |-> [r |-> endCell.r, c |-> endCell.c]]
    IN  Array(<<mergedRange>>)

\* the '!merges' mergeCells leaves
mergeCells(wsMerges, startAddress, endAddress) ==
    LET startCell == decode_cell(startAddress)
        endCell == decode_cell(endAddress)
        mergedRange == [s |-> [r |-> startCell.r, c |-> startCell.c],
                        e |-> [r |-> endCell.r, c |-> endCell.c]]
        list == IF Falsy(wsMerges) THEN Array(<<>>) ELSE wsMerges
    IN  Array(Append(list.items, mergedRange))

----------------------------------------------------------------------------
(* The inputs the callers draw from *)

A1 == Addr(<<1>>, 1)
B1 == Addr(<<2>>, 1)
A2 == Addr(<<1>>, 2)
B2 == Addr(<<2>>, 2)

\* the addresses the single-cell operations are called with: column A
Addresses == {Addr(<<1>>, row) : row \in 1..MaxRow}

\* the addresses of columns A and B
GridAddresses == {Addr(<<col>>, row) : col \in {1, 2}, row \in 1..MaxRow}

Five == Num(5, <<>>)
FiveAndQuarter == Num(5, <<2, 5>>)
\* 0.1234567890123456 : sixteen fractional digits
Long == Num(0, <<1, 2, 3, 4, 5, 6, 7, 8, 9, 0, 1, 2, 3, 4, 5, 6>>)

Records ==
    { CellObject(String("n"), Number(FiveAndQuarter), String("0.00")),
      CellObject(String("n"), String("x"), Undefined),
      CellObject(String("s"), Number(Five), Undefined),
      CellObject(String("s"), String("x"), Undefined) }

Values ==
    { Undefined, String("x"), String(""),
      Number(Five), Number(FiveAndQuarter), Number(Zero), Number(Long) }
    \cup Records

\* the values the range and copy scenarios write
FewValues == { Number(Five), String("x") }

Ranges == GridAddresses \X GridAddresses

----------------------------------------------------------------------------
(* The calls *)

NoCall == [op |-> "none"]

CallSetCellValue(cellAddress, value, formatCell) ==
    /\ worksheet' = setCellValue(worksheet, cellAddress, value, formatCell)
    /\ call' = [op |-> "setCellValue", cellAddress |-> cellAddress,
                value |-> value, formatCell |-> formatCell]
    /\ ret' = Undefined
    /\ UNCHANGED <<targetSheet, merges, history>>

CallGetCellNumericValue(cellAddress) ==
    /\ ret' = getCellNumericValue(worksheet, cellAddress)
    /\ call' = [op |-> "getCellNumericValue", cellAddress |-> cellAddress]
    /\ UNCHANGED <<worksheet, targetSheet, merges, history>>

CallGetCellStringValue(cellAddress) ==
    /\ ret' = getCellStringValue(worksheet, cellAddress)
    /\ call' = [op |-> "getCellStringValue", cellAddress |-> cellAddress]
    /\ UNCHANGED <<worksheet, targetSheet, merges, history>>

CallGetRangeValues(range) ==
    /\ ret' = getRangeValues(worksheet, range)
    /\ call' = [op |-> "getRangeValues", range |-> range]
    /\ UNCHANGED <<worksheet, targetSheet, merges, history>>

CallDuplicateToSheet(sourceCellAddress, targetCellAddress) ==
    /\ targetSheet' = duplicateToSheet(worksheet, targetSheet,
                                       sourceCellAddress, targetCellAddress)
    /\ call' = [op |-> "duplicateToSheet",
                sourceCellAddress |-> sourceCellAddress,
                targetCellAddress |-> targetCellAddress]
    /\ ret' = Undefined
    /\ UNCHANGED <<worksheet, merges, history>>

\* worksheet['!merges'].length, 0 while the list is absent
MergeCount(wsMerges) == IF Falsy(wsMerges) THEN 0 ELSE Len(wsMerges.items)

\* history records the calls made, in order
CallMergeCells(startAddress, endAddress) ==
    /\ MergeCount(merges) < MaxMerges
    /\ merges' = mergeCells(merges, startAddress, endAddress)
    /\ call' = [op |-> "mergeCells", startAddress |-> startAddress,
                endAddress |-> endAddress]
    /\ history' = Append(history, <<startAddress, endAddress>>)
    /\ ret' = Undefined
    /\ UNCHANGED <<worksheet, targetSheet>>

----------------------------------------------------------------------------
(* Specifications *)

Init ==
    /\ worksheet = EmptySheet
    /\ targetSheet = EmptySheet
    /\ merges = Undefined
    /\ call = NoCall
    /\ ret = Undefined
    /\ history = <<>>

\* single cells: writes and typed reads of one worksheet
Next ==
    \/ \E a \in Addresses, v \in Values, f \in BOOLEAN : CallSetCellValue(a, v, f)
    \/ \E a \in Addresses : CallGetCellNumericValue(a)
    \/ \E a \in Addresses : CallGetCellStringValue(a)

Spec == Init /\ [][Next]_vars

\* ranges: writes and range reads over columns A and B
NextRange ==
    \/ \E a \in GridAddresses, v \in FewValues : CallSetCellValue(a, v, TRUE)
    \/ \E range \in Ranges : CallGetRangeValues(range)

SpecRange == Init /\ [][NextRange]_vars

\* copies from worksheet (the source sheet) to targetSheet
NextCopy ==
    \/ \E a \in GridAddresses, v \in FewValues : CallSetCellValue(a, v, TRUE)
    \/ \E s \in GridAddresses, t \in {<<>>} \cup {<<a>> : a \in GridAddresses} :
          CallDuplicateToSheet(s, t)

SpecCopy == Init /\ [][NextCopy]_vars

\* merges of one worksheet
NextMerge == \E s \in GridAddresses, e \in GridAddresses : CallMergeCells(s, e)

SpecMerge == Init /\ [][NextMerge]_vars

----------------------------------------------------------------------------
(* Helpers of the properties *)

IsCall(op) == call.op = op

\* the type tag of the record stored at an address, undefined when there
\* is no record there
TagAt(ws, address) ==
    IF address \in DOMAIN ws /\ ws[address].ty = "object"
    THEN ws[address].t
    ELSE Undefined

\* every key but `address` is set or unset in both sheets alike and holds
\* the same value
SameElsewhere(before, after, address) ==
    \A a \in (DOMAIN before \cup DOMAIN after) \ {address} :
        /\ a \in DOMAIN before
        /\ a \in DOMAIN after
        /\ before[a] = after[a]

Region(sr, sc, er, ec) == [s |-> [r |-> sr, c |-> sc], e |-> [r |-> er, c |-> ec]]

----------------------------------------------------------------------------
(* C1 (SpecCopy) *)

\* C1: duplicateToSheet with a target address that differs from the source
\* address, the source sheet holding a cell at the source address, leaves
\* at the target address of the target sheet the record the source sheet
\* holds at the source address, and leaves the source sheet unchanged.
C1_CopyToOtherAddress ==
    [][ ( /\ call'.op = "duplicateToSheet"
          /\ call'.targetCellAddress # <<>>
          /\ call'.targetCellAddress[1] # call'.sourceCellAddress
          /\ call'.sourceCellAddress \in DOMAIN worksheet )
        => ( /\ call'.targetCellAddress[1] \in DOMAIN targetSheet'
             /\ targetSheet'[call'.targetCellAddress[1]]
                  = worksheet[call'.sourceCellAddress]
             /\ worksheet' = worksheet ) ]_vars

----------------------------------------------------------------------------
(* C2 (SpecRange) *)

\* C2: getRangeValues returns a row-major matrix with the dimensions of the
\* decoded inclusive rectangle whose slot for (row, col) is the cell's value
\* when the cell is present and tagged 'n', and undefined in every other
\* case.
C2_RangeNumericOnly ==
    IsCall("getRangeValues") =>
        LET d == decode_range(call.range)
            nRows == IF d.e.r >= d.s.r THEN d.e.r - d.s.r + 1 ELSE 0
            nCols == IF d.e.c >= d.s.c THEN d.e.c - d.s.c + 1 ELSE 0
        IN  /\ Len(ret) = nRows
            /\ \A i \in 1..nRows :
                 /\ Len(ret[i]) = nCols
                 /\ \A j \in 1..nCols :
                      LET address == encode_cell([r |-> d.s.r + i - 1,
                                                  c |-> d.s.c + j - 1])
                      IN  ret[i][j] =
                            IF TagAt(worksheet, address) = String("n")
                            THEN worksheet[address].v
                            ELSE Undefined

----------------------------------------------------------------------------
(* C3 (Spec) *)

\* C3 as stated: setCellValue with a string s leaves worksheet[addr] equal to
\* the string-tagged record {t:'s', v:s}, for formatCell true and false.
C3_StringAlwaysTagged ==
    (IsCall("setCellValue") /\ call.value.ty = "string") =>
        Lookup(worksheet, call.cellAddress)
          = CellObject(String("s"), call.value, Undefined)

\* C3 amended: setCellValue with a string s leaves worksheet[addr] equal to
\* the string-tagged record {t:'s', v:s} when formatCell is true, and equal
\* to the bare string s when formatCell is false.
C3_StringTaggedWhenFormatting ==
    (IsCall("setCellValue") /\ call.value.ty = "string") =>
        /\ call.cellAddress \in DOMAIN worksheet
        /\ call.formatCell =>
             worksheet[call.cellAddress]
               = CellObject(String("s"), call.value, Undefined)
        /\ ~call.formatCell => worksheet[call.cellAddress] = call.value

\* a string written without formatting beside a string written with it
C3_Witness ==
    /\ IsCall("setCellValue")
    /\ call.value = String("x")
    /\ ~call.formatCell
    /\ Lookup(worksheet, call.cellAddress) = String("x")
    /\ \E a \in DOMAIN worksheet :
         worksheet[a] = CellObject(String("s"), String("x"), Undefined)

----------------------------------------------------------------------------
(* C4 (Spec) *)

\* C4: getCellNumericValue returns 0 and getCellStringValue returns '' when
\* the cell is absent or its tag is not 'n' resp. 's' (a cell tagged 's'
\* that holds a number included); neither throws and neither changes the
\* worksheet.
C4_ReadersDefault ==
    /\ [](( /\ IsCall("getCellNumericValue")
            /\ TagAt(worksheet, call.cellAddress) # String("n") )
          => ret = Number(Zero))
    /\ [](( /\ IsCall("getCellStringValue")
            /\ TagAt(worksheet, call.cellAddress) # String("s") )
          => ret = String(""))
    /\ []((IsCall("getCellNumericValue") \/ IsCall("getCellStringValue"))
          => ret # TypeError)
    /\ [][ call'.op \in {"getCellNumericValue", "getCellStringValue"}
           => worksheet' = worksheet ]_vars

\* the numeric reader on a cell tagged 's' that holds a number, beside an
\* address without a cell
C4_Witness ==
    /\ IsCall("getCellNumericValue")
    /\ Lookup(worksheet, call.cellAddress)
         = CellObject(String("s"), Number(Five), Undefined)
    /\ ret = Number(Zero)
    /\ \E a \in Addresses : a \notin DOMAIN worksheet

----------------------------------------------------------------------------
(* C5 (Spec) *)

\* C5: the typed readers return a value only when its runtime type matches
\* the tag, so that after any sequence of writes getCellNumericValue yields
\* a number and getCellStringValue yields a string.
C5_ReadersTyped ==
    /\ IsCall("getCellNumericValue") => ret.ty = "number"
    /\ IsCall("getCellStringValue") => ret.ty = "string"

----------------------------------------------------------------------------
(* C6 (Spec) *)

\* C6: setCellValue with a number n and formatting enabled leaves a record
\* tagged 'n' whose format is '0' when n is whole and '0.0000' otherwise,
\* and whose value is n when n has no more fractional digits than the
\* default of toFixedFloat (5 -> {n, 5, '0'}, 5.25 -> {n, 5.25, '0.0000'}).
C6_NumberFormatted ==
    (IsCall("setCellValue") /\ call.value.ty = "number" /\ call.formatCell) =>
        LET cell == Lookup(worksheet, call.cellAddress)
            n == call.value.num
        IN  /\ cell.ty = "object"
            /\ cell.t = String("n")
            /\ cell.z = (IF n.frac = <<>> THEN String("0") ELSE String("0.0000"))
            /\ Len(n.frac) <= DefaultDigits => cell.v = call.value
            /\ n = Five =>
                 cell = CellObject(String("n"), Number(Five), String("0"))
            /\ n = FiveAndQuarter =>
                 cell = CellObject(String("n"), Number(FiveAndQuarter),
                                   String("0.0000"))

\* 5.25 written with formatting beside a whole number written with it
C6_Witness ==
    /\ IsCall("setCellValue")
    /\ call.formatCell
    /\ call.value = Number(FiveAndQuarter)
    /\ Lookup(worksheet, call.cellAddress)
         = CellObject(String("n"), Number(FiveAndQuarter), String("0.0000"))
    /\ \E a \in DOMAIN worksheet :
         worksheet[a] = CellObject(String("n"), Number(Five), String("0"))

----------------------------------------------------------------------------
(* C7 (Spec) *)

\* C7: toFixedFloat without a digits argument rounds to 14 decimal places,
\* so the value setCellValue stores for a fractional number is that number
\* rounded to 14 fractional digits.
C7_RoundsTo14 ==
    ( /\ IsCall("setCellValue")
      /\ call.value.ty = "number"
      /\ call.formatCell
      /\ call.value.num.frac # <<>> )
    => /\ DefaultDigits = DocumentedDefaultDigits
       /\ Len(worksheet[call.cellAddress].v.num.frac) <= DocumentedDefaultDigits
       /\ worksheet[call.cellAddress].v
            = Number(toFixedFloat(call.value.num, DocumentedDefaultDigits))

----------------------------------------------------------------------------
(* C8 (SpecMerge) *)

\* C8: every mergeCells call appends exactly one region {s: decoded start,
\* e: decoded end} to the end of the merge list, creating the list when it
\* is absent, whatever the two addresses are; after k calls the list has
\* length k and holds the regions in call order, and no earlier entry is
\* changed or removed (merging A1 to B2 first gives s = (0,0), e = (1,1)).
C8_MergesAppendOnly ==
    /\ [](IF history = <<>>
          THEN merges = Undefined
          ELSE /\ merges.ty = "array"
               /\ Len(merges.items) = Len(history)
               /\ \A i \in 1..Len(history) :
                    /\ merges.items[i].s = decode_cell(history[i][1])
                    /\ merges.items[i].e = decode_cell(history[i][2])
               /\ history[1] = <<A1, B2>> => merges.items[1] = Region(0, 0, 1, 1))
    /\ [][ call'.op = "mergeCells"
           => /\ MergeCount(merges') = MergeCount(merges) + 1
              /\ \A i \in 1..MergeCount(merges) :
                   merges'.items[i] = merges.items[i] ]_vars

\* A1:B2 merged first, then the inverted rectangle B2:A1, which overlaps it
C8_Witness ==
    /\ IsCall("mergeCells")
    /\ history = << <<A1, B2>>, <<B2, A1>> >>
    /\ merges = Array(<< Region(0, 0, 1, 1), Region(1, 1, 0, 0) >>)

----------------------------------------------------------------------------
(* C9 (Spec) *)

IsVerbatimNumericWrite(c) ==
    /\ c.op = "setCellValue"
    /\ ~c.formatCell
    /\ c.value.ty = "object"
    /\ c.value.t = String("n")

----------------------------------------------------------------------------
(* C10 (SpecCopy) *)

\* C10: duplicateToSheet, the source sheet holding no cell at the source
\* address, leaves the target slot (the target address, or the source
\* address when none is given) set to undefined, and changes no other slot
\* of the target sheet and nothing of the source sheet.
C10_MissingSourceGivesUndefined ==
    [][ ( /\ call'.op = "duplicateToSheet"
          /\ call'.sourceCellAddress \notin DOMAIN worksheet )
        => LET slot == IF call'.targetCellAddress # <<>>
                       THEN call'.targetCellAddress[1]
                       ELSE call'.sourceCellAddress
           IN  /\ slot \in DOMAIN targetSheet'
               /\ targetSheet'[slot] = Undefined
               /\ SameElsewhere(targetSheet, targetSheet', slot)
               /\ worksheet' = worksheet ]_vars

====
